---------------------------- MODULE Spec2Model ----------------------------
(***************************************************************************)
(* Explicit-list heap allocator of src/el_malloc.c.                        *)
(*                                                                         *)
(* Memory is modelled as the C code sees it: a map from the address of a   *)
(* field to the value last stored there.  A block header occupies          *)
(* SIZEOF_HEAD bytes (size, state, next, prev), a footer SIZEOF_FOOT bytes *)
(* (size).  A store removes every older field it overlaps, so an abandoned *)
(* header stays readable exactly as long as no later store touches it.     *)
(* A load of a field that no store defined has no value: evaluation stops  *)
(* with an error if the program ever performs one.  A store outside the    *)
(* mapped memory sets trap (SIGSEGV), after which nothing runs.            *)
(* The four list sentinels live in the global el_ctl, outside the arena.   *)
(*                                                                         *)
(* Every C function is an operator from a machine state                    *)
(*     S = [mem, ctl, trap]                                                *)
(* to the machine state it leaves (and its return value).  Its statements  *)
(* are the local operators s1, s2, ... applied in source order by Do.      *)
(***************************************************************************)
EXTENDS Integers, Sequences, FiniteSets, TLC

(***************************************************************************)
(* Constants of el_malloc.h, as they show in el_malloc.c.                  *)
(***************************************************************************)
\* size_t and pointers are unsigned words; 2^16 stands for 2^64.
SizeMod == 2^16

NULL == 0

\* EL_HEAP_START_ADDRESS: 0x6000 stands for 0x600000000000.
EL_HEAP_START_ADDRESS == 24576

EL_HEAP_INITIAL_SIZE == 4096

\* sizeof(el_blockhead_t): size_t size; char state; next; prev.
SIZEOF_HEAD == 32

\* sizeof(el_blockfoot_t): size_t size.
SIZEOF_FOOT == 8

EL_BLOCK_OVERHEAD == SIZEOF_HEAD + SIZEOF_FOOT

\* offsets of the fields of el_blockhead_t
OFF_SIZE == 0

OFF_STATE == 8

OFF_NEXT == 16

OFF_PREV == 24

\* widths of the fields
W_WORD == 8

W_CHAR == 1

\* block states: 'a', 'u', 'B', 'E'
EL_AVAILABLE == 97

EL_USED == 117

EL_BEGIN_BLOCK == 66

EL_END_BLOCK == 69

\* EL_UNINITIALIZED is -1, stored in a size_t
EL_UNINITIALIZED == SizeMod - 1

\* addresses of the sentinels inside the global el_ctl
AVAIL_BEG == 1024

AVAIL_END == 1056

USED_BEG == 1120

USED_END == 1152

ListBeg(list) == IF list = "avail" THEN AVAIL_BEG ELSE USED_BEG

ListEnd(list) == IF list = "avail" THEN AVAIL_END ELSE USED_END

Sentinels == {AVAIL_BEG, AVAIL_END, USED_BEG, USED_END}

(***************************************************************************)
(* Bounds of the model.                                                    *)
(***************************************************************************)
\* the caller makes at most MaxCalls calls of el_malloc() and el_free()
MaxCalls == 7

\* request sizes the caller draws from: an exact fit of a freed 100-byte
\* block (60 + overhead), the example's 100, what is left of the arena after
\* a 100-byte block (3876 + overhead), and one byte too many for the arena
Requests == {60, 100, 3876, 4017}

VARIABLES mem, el_ctl, trap, held, calls, last

vars == <<mem, el_ctl, trap, held, calls, last>>

(***************************************************************************)
(* Machine state and memory access.                                        *)
(***************************************************************************)
Machine == [mem |-> mem, ctl |-> el_ctl, trap |-> trap]

\* F at the value of v, which is computed once
Let(v, F(_)) == CHOOSE r \in {F(x) : x \in {v}} : TRUE

\* the state statement stmt leaves when started in S
Do(S, stmt(_)) == Let(S, stmt)

U(x) == x % SizeMod

PTR_PLUS_BYTES(ptr, off) == U(ptr + off)

PTR_MINUS_BYTES(ptr, off) == U(ptr - off)

\* a store is legal inside the mmap()ed arena and inside el_ctl
Mapped(a, w) ==
    \/ EL_HEAP_START_ADDRESS <= a /\ a + w <= EL_HEAP_START_ADDRESS + EL_HEAP_INITIAL_SIZE
    \/ \E s \in Sentinels : s <= a /\ a + w <= s + SIZEOF_HEAD

Overlaps(a, wa, b, wb) == a < b + wb /\ b < a + wa

\* the fields already in m that a store of w bytes at a overwrites in part
\* (fields are at most W_WORD wide, and the fields of m never overlap)
Clobbered(m, a, w) ==
    {x \in (a - (W_WORD - 1)) .. (a + w - 1) :
        x \in DOMAIN m /\ x # a /\ Overlaps(x, m[x].w, a, w)}

Store(m, a, w, v) ==
    LET put(clob) ==
            IF clob = {} THEN (a :> [v |-> v, w |-> w]) @@ m
            ELSE (a :> [v |-> v, w |-> w]) @@ [k \in DOMAIN m \ clob |-> m[k]]
    IN  Let(Clobbered(m, a, w), put)

\* *(a) = v; a store outside mapped memory raises SIGSEGV
Wr(S, a, w, v) ==
    IF S.trap THEN S
    ELSE LET at(x) ==
                 IF Mapped(x, w) THEN [S EXCEPT !.mem = Store(S.mem, x, w, v)]
                 ELSE [S EXCEPT !.trap = TRUE]
         IN  Let(a, at)

\* *(a)
Rd(S, a) == S.mem[a].v

Size(S, b) == Rd(S, b + OFF_SIZE)

State(S, b) == Rd(S, b + OFF_STATE)

Next_(S, b) == Rd(S, b + OFF_NEXT)

Prev_(S, b) == Rd(S, b + OFF_PREV)

(***************************************************************************)
(* Pointer arithmetic between adjacent headers and footers.                *)
(***************************************************************************)
el_get_footer(S, head) ==
    LET size == Size(S, head)
    IN  PTR_PLUS_BYTES(head, SIZEOF_HEAD + size)

el_get_header(S, foot) ==
    LET size == Rd(S, foot)
    IN  PTR_MINUS_BYTES(foot, size + SIZEOF_HEAD)

el_block_above(S, block) ==
    LET found(higher) == IF higher >= S.ctl.heap_end THEN NULL ELSE higher
    IN  Let(PTR_PLUS_BYTES(block, Size(S, block) + EL_BLOCK_OVERHEAD), found)

el_block_below(S, block) ==
    LET prev_foot == PTR_MINUS_BYTES(block, SIZEOF_FOOT)
    IN  IF prev_foot < S.ctl.heap_start THEN NULL
        ELSE el_get_header(S, prev_foot)

(***************************************************************************)
(* Block list operations.                                                  *)
(***************************************************************************)
SetList(S, list, len, bytes) ==
    [S EXCEPT !.ctl[list] = [length |-> len, bytes |-> bytes]]

el_init_blocklist(S, list) ==
    LET beg == ListBeg(list)
        end == ListEnd(list)
        s1(T) == Wr(T, beg + OFF_STATE, W_CHAR, EL_BEGIN_BLOCK)
        s2(T) == Wr(T, beg + OFF_SIZE,  W_WORD, EL_UNINITIALIZED)
        s3(T) == Wr(T, end + OFF_STATE, W_CHAR, EL_END_BLOCK)
        s4(T) == Wr(T, end + OFF_SIZE,  W_WORD, EL_UNINITIALIZED)
        s5(T) == Wr(T, beg + OFF_NEXT,  W_WORD, end)
        s6(T) == Wr(T, beg + OFF_PREV,  W_WORD, NULL)
        s7(T) == Wr(T, end + OFF_NEXT,  W_WORD, NULL)
        s8(T) == Wr(T, end + OFF_PREV,  W_WORD, beg)
        s9(T) == SetList(T, list, 0, 0)
    IN  Do(Do(Do(Do(Do(Do(Do(Do(Do(S, s1), s2), s3), s4), s5), s6), s7), s8), s9)

el_add_block_front(S, list, block) ==
    LET beg == ListBeg(list)
        s1(T) == Wr(T, block + OFF_PREV, W_WORD, beg)
        s2(T) == Wr(T, block + OFF_NEXT, W_WORD, Next_(T, beg))
        s3(T) == Wr(T, Prev_(T, block) + OFF_NEXT, W_WORD, block)
        s4(T) == Wr(T, Next_(T, block) + OFF_PREV, W_WORD, block)
        s5(T) == IF T.trap THEN T
                 ELSE SetList(T, list,
                              U(T.ctl[list].length + 1),
                              U(T.ctl[list].bytes + (EL_BLOCK_OVERHEAD + Size(T, block))))
    IN  Do(Do(Do(Do(Do(S, s1), s2), s3), s4), s5)

\* el_remove_block with the overhead left out of the bytes it subtracts
el_remove_block_payload_only(S, list, block) ==
    LET s1(T) == Wr(T, Prev_(T, block) + OFF_NEXT, W_WORD, Next_(T, block))
        s2(T) == Wr(T, Next_(T, block) + OFF_PREV, W_WORD, Prev_(T, block))
        s3(T) == IF T.trap THEN T
                 ELSE SetList(T, list,
                              U(T.ctl[list].length - 1),
                              U(T.ctl[list].bytes - Size(T, block)))
    IN  Do(Do(Do(S, s1), s2), s3)

el_remove_block(S, list, block) ==
    LET s1(T) == Wr(T, Prev_(T, block) + OFF_NEXT, W_WORD, Next_(T, block))
        s2(T) == Wr(T, Next_(T, block) + OFF_PREV, W_WORD, Prev_(T, block))
        s3(T) == IF T.trap THEN T
                 ELSE SetList(T, list,
                              U(T.ctl[list].length - 1),
                              U(T.ctl[list].bytes - (EL_BLOCK_OVERHEAD + Size(T, block))))
    IN  Do(Do(Do(S, s1), s2), s3)

(***************************************************************************)
(* Initialisation.                                                         *)
(***************************************************************************)
\* el_ctl = {} and the pages mmap() hands out, in which nothing is stored yet
Blank ==
    [mem  |-> <<>>,
     ctl  |-> [heap_bytes |-> 0, heap_start |-> NULL, heap_end |-> NULL,
               avail |-> [length |-> 0, bytes |-> 0],
               used  |-> [length |-> 0, bytes |-> 0]],
     trap |-> FALSE]

\* el_init that also refuses an arena of exactly one block overhead
el_init_sized_lax(S, heap_initial_size) ==
    LET heap == EL_HEAP_START_ADDRESS
        s1(T) == [T EXCEPT !.ctl.heap_bytes = heap_initial_size]
        s2(T) == [T EXCEPT !.ctl.heap_start = heap]
        s3(T) == [T EXCEPT !.ctl.heap_end = PTR_PLUS_BYTES(heap, T.ctl.heap_bytes)]
        s4(T) == el_init_blocklist(T, "avail")
        s5(T) == el_init_blocklist(T, "used")
        size(T) == U(T.ctl.heap_bytes - EL_BLOCK_OVERHEAD)
        ablock(T) == T.ctl.heap_start
        s6(T) == Wr(T, ablock(T) + OFF_SIZE, W_WORD, size(T))
        s7(T) == Wr(T, ablock(T) + OFF_STATE, W_CHAR, EL_AVAILABLE)
        s8(T) == Wr(T, el_get_footer(T, ablock(T)), W_WORD, size(T))
        s9(T) == el_add_block_front(T, "avail", ablock(T))
        rest(T) ==
            IF T.ctl.heap_bytes <= EL_BLOCK_OVERHEAD
            THEN [ret |-> -1, S |-> T]
            ELSE [ret |-> 0,
                  S |-> Do(Do(Do(Do(Do(Do(T, s4), s5), s6), s7), s8), s9)]
    IN  Let(Do(Do(Do(S, s1), s2), s3), rest)

\* el_init built with EL_HEAP_INITIAL_SIZE set to heap_initial_size
el_init_sized(S, heap_initial_size) ==
    LET heap == EL_HEAP_START_ADDRESS
        s1(T) == [T EXCEPT !.ctl.heap_bytes = heap_initial_size]
        s2(T) == [T EXCEPT !.ctl.heap_start = heap]
        s3(T) == [T EXCEPT !.ctl.heap_end = PTR_PLUS_BYTES(heap, T.ctl.heap_bytes)]
        s4(T) == el_init_blocklist(T, "avail")
        s5(T) == el_init_blocklist(T, "used")
        size(T) == U(T.ctl.heap_bytes - EL_BLOCK_OVERHEAD)
        ablock(T) == T.ctl.heap_start
        s6(T) == Wr(T, ablock(T) + OFF_SIZE, W_WORD, size(T))
        s7(T) == Wr(T, ablock(T) + OFF_STATE, W_CHAR, EL_AVAILABLE)
        s8(T) == Wr(T, el_get_footer(T, ablock(T)), W_WORD, size(T))
        s9(T) == el_add_block_front(T, "avail", ablock(T))
        rest(T) ==
            IF T.ctl.heap_bytes < EL_BLOCK_OVERHEAD
            THEN [ret |-> -1, S |-> T]
            ELSE [ret |-> 0,
                  S |-> Do(Do(Do(Do(Do(Do(T, s4), s5), s6), s7), s8), s9)]
    IN  Let(Do(Do(Do(S, s1), s2), s3), rest)

el_init(S) == el_init_sized(S, EL_HEAP_INITIAL_SIZE)

(***************************************************************************)
(* Allocation.                                                             *)
(***************************************************************************)
RECURSIVE find_loop_strict(_, _, _, _, _)
\* the scan with > in place of >=
find_loop_strict(S, start, i, total_avail, size) ==
    IF i < total_avail
    THEN IF Size(S, start) > U(size + EL_BLOCK_OVERHEAD)
         THEN start
         ELSE LET go(nxt) == find_loop_strict(S, nxt, i + 1, total_avail, size)
              IN  Let(Next_(S, start), go)
    ELSE NULL

el_find_first_avail_strict(S, size) ==
    LET total_avail == S.ctl.avail.length
        go(start) == find_loop_strict(S, start, 0, total_avail, size)
    IN  Let(Next_(S, ListBeg("avail")), go)

RECURSIVE find_loop_bare(_, _, _, _, _)
\* the scan for a block of at least size bytes, no room for a split asked
find_loop_bare(S, start, i, total_avail, size) ==
    IF i < total_avail
    THEN IF Size(S, start) >= size
         THEN start
         ELSE LET go(nxt) == find_loop_bare(S, nxt, i + 1, total_avail, size)
              IN  Let(Next_(S, start), go)
    ELSE NULL

\* el_find_first_avail that asks for room for the payload only
el_find_first_avail_no_overhead(S, size) ==
    LET total_avail == S.ctl.avail.length
        go(start) == find_loop_bare(S, start, 0, total_avail, size)
    IN  Let(Next_(S, ListBeg("avail")), go)

RECURSIVE find_loop(_, _, _, _, _)
\* the for loop of el_find_first_avail
find_loop(S, start, i, total_avail, size) ==
    IF i < total_avail
    THEN IF Size(S, start) >= U(size + EL_BLOCK_OVERHEAD)
         THEN start
         ELSE LET go(nxt) == find_loop(S, nxt, i + 1, total_avail, size)
              IN  Let(Next_(S, start), go)
    ELSE NULL

el_find_first_avail(S, size) ==
    LET total_avail == S.ctl.avail.length
        go(start) == find_loop(S, start, 0, total_avail, size)
    IN  Let(Next_(S, ListBeg("avail")), go)

\* el_split_block with the new header and footer not taken off the remainder
el_split_block_short(S, block, new_size) ==
    IF Size(S, block) < U(new_size + EL_BLOCK_OVERHEAD) \/ block = NULL
    THEN [ret |-> NULL, S |-> S]
    ELSE LET size == Size(S, block)
             split_foot == el_get_footer(S, block)
             new_head == PTR_PLUS_BYTES(block, U(new_size + SIZEOF_FOOT + SIZEOF_HEAD))
             new_foot == PTR_PLUS_BYTES(block, U(new_size + SIZEOF_HEAD))
             s1(T) == Wr(T, block + OFF_SIZE, W_WORD, new_size)
             s2(T) == Wr(T, new_foot, W_WORD, new_size)
             s3(T) == Wr(T, new_head + OFF_SIZE, W_WORD, U(size - new_size))
             s4(T) == Wr(T, split_foot, W_WORD, U(size - new_size))
         IN  [ret |-> new_head, S |-> Do(Do(Do(Do(S, s1), s2), s3), s4)]

\* el_split_block that leaves the footer of the block it split as it was
el_split_block_old_foot(S, block, new_size) ==
    IF Size(S, block) < U(new_size + EL_BLOCK_OVERHEAD) \/ block = NULL
    THEN [ret |-> NULL, S |-> S]
    ELSE LET size == Size(S, block)
             new_head == PTR_PLUS_BYTES(block, U(new_size + SIZEOF_FOOT + SIZEOF_HEAD))
             new_foot == PTR_PLUS_BYTES(block, U(new_size + SIZEOF_HEAD))
             s1(T) == Wr(T, block + OFF_SIZE, W_WORD, new_size)
             s2(T) == Wr(T, new_foot, W_WORD, new_size)
             s3(T) == Wr(T, new_head + OFF_SIZE, W_WORD, U(size - new_size - EL_BLOCK_OVERHEAD))
         IN  [ret |-> new_head, S |-> Do(Do(Do(S, s1), s2), s3)]

el_split_block(S, block, new_size) ==
    IF Size(S, block) < U(new_size + EL_BLOCK_OVERHEAD) \/ block = NULL
    THEN [ret |-> NULL, S |-> S]
    ELSE LET size == Size(S, block)
             split_foot == el_get_footer(S, block)
             new_head == PTR_PLUS_BYTES(block, U(new_size + SIZEOF_FOOT + SIZEOF_HEAD))
             new_foot == PTR_PLUS_BYTES(block, U(new_size + SIZEOF_HEAD))
             s1(T) == Wr(T, block + OFF_SIZE, W_WORD, new_size)
             s2(T) == Wr(T, new_foot, W_WORD, new_size)
             s3(T) == Wr(T, new_head + OFF_SIZE, W_WORD, U(size - new_size - EL_BLOCK_OVERHEAD))
             s4(T) == Wr(T, split_foot, W_WORD, U(size - new_size - EL_BLOCK_OVERHEAD))
         IN  [ret |-> new_head, S |-> Do(Do(Do(Do(S, s1), s2), s3), s4)]

\* the statements of el_malloc that follow the split: link both blocks and
\* mark them
malloc_link(sp, first) ==
    LET second == sp.ret
        s1(T) == el_add_block_front(T, "used", first)
        s2(T) == Wr(T, first + OFF_STATE, W_CHAR, EL_USED)
        s3(T) == el_add_block_front(T, "avail", second)
        s4(T) == Wr(T, second + OFF_STATE, W_CHAR, EL_AVAILABLE)
    IN  Do(Do(Do(Do(sp.S, s1), s2), s3), s4)

\* el_malloc that takes any block of nbytes and gives up, the block already
\* unlinked, when the split fails
el_malloc_leak(S, nbytes) ==
    LET split(first) ==
            LET link(sp) ==
                    IF sp.ret = NULL
                    THEN [ret |-> NULL, S |-> sp.S]
                    ELSE [ret |-> PTR_PLUS_BYTES(first, SIZEOF_HEAD),
                          S |-> malloc_link(sp, first)]
                cut(S1) == Let(el_split_block(S1, first, nbytes), link)
            IN  IF first = NULL
                THEN [ret |-> NULL, S |-> S]
                ELSE Let(el_remove_block(S, "avail", first), cut)
    IN  Let(find_loop_bare(S, Next_(S, ListBeg("avail")), 0, S.ctl.avail.length, nbytes),
            split)

\* el_malloc that steps over the whole per-block overhead
el_malloc_past_overhead(S, nbytes) ==
    LET split(first) ==
            LET link(sp) ==
                    [ret |-> PTR_PLUS_BYTES(first, EL_BLOCK_OVERHEAD),
                     S |-> malloc_link(sp, first)]
                cut(S1) == Let(el_split_block(S1, first, nbytes), link)
            IN  IF first = NULL
                THEN [ret |-> NULL, S |-> S]
                ELSE Let(el_remove_block(S, "avail", first), cut)
    IN  Let(el_find_first_avail(S, nbytes), split)

\* el_malloc that leaves the granted block marked as it was
el_malloc_no_used_mark(S, nbytes) ==
    LET split(first) ==
            LET link(sp) ==
                    LET second == sp.ret
                        s1(T) == el_add_block_front(T, "used", first)
                        s3(T) == el_add_block_front(T, "avail", second)
                        s4(T) == Wr(T, second + OFF_STATE, W_CHAR, EL_AVAILABLE)
                    IN  [ret |-> PTR_PLUS_BYTES(first, SIZEOF_HEAD),
                         S |-> Do(Do(Do(sp.S, s1), s3), s4)]
                cut(S1) == Let(el_split_block(S1, first, nbytes), link)
            IN  IF first = NULL
                THEN [ret |-> NULL, S |-> S]
                ELSE Let(el_remove_block(S, "avail", first), cut)
    IN  Let(el_find_first_avail(S, nbytes), split)

el_malloc(S, nbytes) ==
    LET split(first) ==
            LET link(sp) ==
                    [ret |-> PTR_PLUS_BYTES(first, SIZEOF_HEAD),
                     S |-> malloc_link(sp, first)]
                cut(S1) == Let(el_split_block(S1, first, nbytes), link)
            IN  IF first = NULL
                THEN [ret |-> NULL, S |-> S]
                ELSE Let(el_remove_block(S, "avail", first), cut)
    IN  Let(el_find_first_avail(S, nbytes), split)

(***************************************************************************)
(* De-allocation.                                                          *)
(***************************************************************************)
\* el_merge_block_with_above that leaves the upper block's footer as it was
el_merge_block_with_above_stale_foot(S, lower) ==
    LET merge(above) ==
            IF \/ lower = NULL
               \/ State(S, lower) # EL_AVAILABLE
               \/ above = NULL
               \/ State(S, above) # EL_AVAILABLE
            THEN S
            ELSE LET size_lower == Size(S, lower)
                     size_above == Size(S, above)
                     total == U(size_lower + size_above)
                     s1(T) == el_remove_block(T, "avail", above)
                     s2(T) == el_remove_block(T, "avail", lower)
                     s3(T) == Wr(T, lower + OFF_SIZE, W_WORD, U(total + EL_BLOCK_OVERHEAD))
                     s5(T) == el_add_block_front(T, "avail", lower)
                 IN  Do(Do(Do(Do(S, s1), s2), s3), s5)
    IN  Let(el_block_above(S, lower), merge)

\* el_merge_block_with_above with the reclaimed overhead left out of the size
el_merge_block_with_above_no_overhead(S, lower) ==
    LET merge(above) ==
            IF \/ lower = NULL
               \/ State(S, lower) # EL_AVAILABLE
               \/ above = NULL
               \/ State(S, above) # EL_AVAILABLE
            THEN S
            ELSE LET size_lower == Size(S, lower)
                     size_above == Size(S, above)
                     total == U(size_lower + size_above)
                     above_foot == el_get_footer(S, above)
                     s1(T) == el_remove_block(T, "avail", above)
                     s2(T) == el_remove_block(T, "avail", lower)
                     s3(T) == Wr(T, lower + OFF_SIZE, W_WORD, total)
                     s4(T) == Wr(T, above_foot, W_WORD, total)
                     s5(T) == el_add_block_front(T, "avail", lower)
                 IN  Do(Do(Do(Do(Do(S, s1), s2), s3), s4), s5)
    IN  Let(el_block_above(S, lower), merge)

\* el_merge_block_with_above that stores the merged size while both blocks
\* are still linked
el_merge_block_with_above_resize_linked(S, lower) ==
    LET merge(above) ==
            IF \/ lower = NULL
               \/ State(S, lower) # EL_AVAILABLE
               \/ above = NULL
               \/ State(S, above) # EL_AVAILABLE
            THEN S
            ELSE LET size_lower == Size(S, lower)
                     size_above == Size(S, above)
                     total == U(size_lower + size_above)
                     above_foot == el_get_footer(S, above)
                     s1(T) == el_remove_block(T, "avail", above)
                     s2(T) == el_remove_block(T, "avail", lower)
                     s3(T) == Wr(T, lower + OFF_SIZE, W_WORD, U(total + EL_BLOCK_OVERHEAD))
                     s4(T) == Wr(T, above_foot, W_WORD, U(total + EL_BLOCK_OVERHEAD))
                     s5(T) == el_add_block_front(T, "avail", lower)
                 IN  Do(Do(Do(Do(Do(S, s3), s4), s1), s2), s5)
    IN  Let(el_block_above(S, lower), merge)

\* el_merge_block_with_above that unlinks the upper block only
el_merge_block_with_above_keep_lower(S, lower) ==
    LET merge(above) ==
            IF \/ lower = NULL
               \/ State(S, lower) # EL_AVAILABLE
               \/ above = NULL
               \/ State(S, above) # EL_AVAILABLE
            THEN S
            ELSE LET size_lower == Size(S, lower)
                     size_above == Size(S, above)
                     total == U(size_lower + size_above)
                     above_foot == el_get_footer(S, above)
                     s1(T) == el_remove_block(T, "avail", above)
                     s3(T) == Wr(T, lower + OFF_SIZE, W_WORD, U(total + EL_BLOCK_OVERHEAD))
                     s4(T) == Wr(T, above_foot, W_WORD, U(total + EL_BLOCK_OVERHEAD))
                     s5(T) == el_add_block_front(T, "avail", lower)
                 IN  Do(Do(Do(Do(S, s1), s3), s4), s5)
    IN  Let(el_block_above(S, lower), merge)

el_merge_block_with_above(S, lower) ==
    LET merge(above) ==
            IF \/ lower = NULL
               \/ State(S, lower) # EL_AVAILABLE
               \/ above = NULL
               \/ State(S, above) # EL_AVAILABLE
            THEN S
            ELSE LET size_lower == Size(S, lower)
                     size_above == Size(S, above)
                     total == U(size_lower + size_above)
                     above_foot == el_get_footer(S, above)
                     s1(T) == el_remove_block(T, "avail", above)
                     s2(T) == el_remove_block(T, "avail", lower)
                     s3(T) == Wr(T, lower + OFF_SIZE, W_WORD, U(total + EL_BLOCK_OVERHEAD))
                     s4(T) == Wr(T, above_foot, W_WORD, U(total + EL_BLOCK_OVERHEAD))
                     s5(T) == el_add_block_front(T, "avail", lower)
                 IN  Do(Do(Do(Do(Do(S, s1), s2), s3), s4), s5)
    IN  Let(el_block_above(S, lower), merge)

\* el_free without the test for a block that is already AVAILABLE
el_free_unchecked(S, ptr) ==
    LET header_to_free == PTR_MINUS_BYTES(ptr, SIZEOF_HEAD)
        release(before) ==
            LET s1(T) == el_remove_block(T, "used", header_to_free)
                s2(T) == Wr(T, header_to_free + OFF_STATE, W_CHAR, EL_AVAILABLE)
                s3(T) == el_add_block_front(T, "avail", header_to_free)
                s4(T) == el_merge_block_with_above(T, header_to_free)
                s5(T) == IF before # NULL
                         THEN el_merge_block_with_above(T, before)
                         ELSE T
            IN  Do(Do(Do(Do(Do(S, s1), s2), s3), s4), s5)
    IN  Let(el_block_below(S, header_to_free), release)

\* el_free that merges with the block above only
el_free_above_only(S, ptr) ==
    LET header_to_free == PTR_MINUS_BYTES(ptr, SIZEOF_HEAD)
        s1(T) == el_remove_block(T, "used", header_to_free)
        s2(T) == Wr(T, header_to_free + OFF_STATE, W_CHAR, EL_AVAILABLE)
        s3(T) == el_add_block_front(T, "avail", header_to_free)
        s4(T) == el_merge_block_with_above(T, header_to_free)
    IN  IF State(S, header_to_free) = EL_AVAILABLE
        THEN S
        ELSE Do(Do(Do(Do(S, s1), s2), s3), s4)

\* el_free that merges the block below before it merges the block above
el_free_below_first(S, ptr) ==
    LET header_to_free == PTR_MINUS_BYTES(ptr, SIZEOF_HEAD)
        release(before) ==
            LET s1(T) == el_remove_block(T, "used", header_to_free)
                s2(T) == Wr(T, header_to_free + OFF_STATE, W_CHAR, EL_AVAILABLE)
                s3(T) == el_add_block_front(T, "avail", header_to_free)
                s4(T) == el_merge_block_with_above(T, header_to_free)
                s5(T) == IF before # NULL
                         THEN el_merge_block_with_above(T, before)
                         ELSE T
            IN  Do(Do(Do(Do(Do(S, s1), s2), s3), s5), s4)
    IN  IF State(S, header_to_free) = EL_AVAILABLE
        THEN S
        ELSE Let(el_block_below(S, header_to_free), release)

\* el_free that merges with the block below only
el_free_below_only(S, ptr) ==
    LET header_to_free == PTR_MINUS_BYTES(ptr, SIZEOF_HEAD)
        release(before) ==
            LET s1(T) == el_remove_block(T, "used", header_to_free)
                s2(T) == Wr(T, header_to_free + OFF_STATE, W_CHAR, EL_AVAILABLE)
                s3(T) == el_add_block_front(T, "avail", header_to_free)
                s5(T) == IF before # NULL
                         THEN el_merge_block_with_above(T, before)
                         ELSE T
            IN  Do(Do(Do(Do(S, s1), s2), s3), s5)
    IN  IF State(S, header_to_free) = EL_AVAILABLE
        THEN S
        ELSE Let(el_block_below(S, header_to_free), release)

el_free(S, ptr) ==
    LET header_to_free == PTR_MINUS_BYTES(ptr, SIZEOF_HEAD)
        release(before) ==
            LET s1(T) == el_remove_block(T, "used", header_to_free)
                s2(T) == Wr(T, header_to_free + OFF_STATE, W_CHAR, EL_AVAILABLE)
                s3(T) == el_add_block_front(T, "avail", header_to_free)
                s4(T) == el_merge_block_with_above(T, header_to_free)
                s5(T) == IF before # NULL
                         THEN el_merge_block_with_above(T, before)
                         ELSE T
            IN  Do(Do(Do(Do(Do(S, s1), s2), s3), s4), s5)
    IN  IF State(S, header_to_free) = EL_AVAILABLE
        THEN S
        ELSE Let(el_block_below(S, header_to_free), release)

\* the state el_free has reached when it calls el_merge_block_with_above:
\* the block unlinked from the used list, marked, and put on the available list
el_free_release(S, ptr) ==
    LET header_to_free == PTR_MINUS_BYTES(ptr, SIZEOF_HEAD)
        s1(T) == el_remove_block(T, "used", header_to_free)
        s2(T) == Wr(T, header_to_free + OFF_STATE, W_CHAR, EL_AVAILABLE)
        s3(T) == el_add_block_front(T, "avail", header_to_free)
    IN  Do(Do(Do(S, s1), s2), s3)

(***************************************************************************)
(* Views of a machine state used to state the properties.                  *)
(***************************************************************************)
\* no heap holds more blocks than this
MaxBlocks == (EL_HEAP_INITIAL_SIZE \div EL_BLOCK_OVERHEAD) + 1

RECURSIVE Chain(_, _, _, _)
\* the blocks linked from node up to the end sentinel, following next
Chain(S, node, end, fuel) ==
    IF node = end \/ node = NULL \/ fuel = 0 THEN <<>>
    ELSE LET rest(nxt) == <<node>> \o Chain(S, nxt, end, fuel - 1)
         IN  Let(Next_(S, node), rest)

\* the members of a list, front first
ListSeq(S, list) ==
    LET from(node) == Chain(S, node, ListEnd(list), MaxBlocks)
    IN  Let(Next_(S, ListBeg(list)), from)

RECURSIVE Climb(_, _, _)
\* the blocks of the arena in address order, from block upwards
Climb(S, block, fuel) ==
    IF block = NULL \/ fuel = 0 THEN <<>>
    ELSE LET rest(higher) == <<block>> \o Climb(S, higher, fuel - 1)
         IN  Let(el_block_above(S, block), rest)

PhysSeq(S) == Climb(S, S.ctl.heap_start, MaxBlocks)

Range(seq) == {seq[i] : i \in DOMAIN seq}

Count(seq, x) == Cardinality({i \in DOMAIN seq : seq[i] = x})

RECURSIVE SumSeq(_)
SumSeq(seq) == IF seq = <<>> THEN 0 ELSE Head(seq) + SumSeq(Tail(seq))

SpanLo(S, b) == b

SpanHi(S, b) == b + SIZEOF_HEAD + Size(S, b) + SIZEOF_FOOT

\* the spans of the members of both lists tile [heap_start, heap_end)
Partition(S) ==
    LET tiles(bs) ==
            /\ \A i \in DOMAIN bs :
                  S.ctl.heap_start <= SpanLo(S, bs[i]) /\ SpanHi(S, bs[i]) <= S.ctl.heap_end
            /\ \A i, j \in DOMAIN bs :
                  i < j => \/ SpanHi(S, bs[i]) <= SpanLo(S, bs[j])
                           \/ SpanHi(S, bs[j]) <= SpanLo(S, bs[i])
            /\ SumSeq([i \in DOMAIN bs |-> SpanHi(S, bs[i]) - SpanLo(S, bs[i])])
                  = S.ctl.heap_bytes
    IN  Let(ListSeq(S, "avail") \o ListSeq(S, "used"), tiles)

\* no two physically adjacent blocks are both AVAILABLE
NoAdjacentAvail(S) ==
    LET apart(ps) ==
            \A i \in 1 .. (Len(ps) - 1) :
                ~(State(S, ps[i]) = EL_AVAILABLE /\ State(S, ps[i + 1]) = EL_AVAILABLE)
    IN  Let(PhysSeq(S), apart)

\* the place of block b in the available list, 0 when it is not in it
PlaceOf(S, b) ==
    LET place(av) ==
            LET least(at) == IF at = {} THEN 0 ELSE CHOOSE i \in at : \A j \in at : i <= j
            IN  Let({i \in DOMAIN av : av[i] = b}, least)
    IN  Let(ListSeq(S, "avail"), place)

\* an available block that holds n bytes but not n bytes and a new header and footer
HasTight(S, n) ==
    \E b \in Range(ListSeq(S, "avail")) :
        n <= Size(S, b) /\ Size(S, b) < n + EL_BLOCK_OVERHEAD

\* what the allocator itself can observe: el_ctl, the sentinels, and the
\* header and footer of every member of the two lists
Fields(S, b) ==
    [head |-> b, size |-> Size(S, b), state |-> State(S, b),
     next |-> Next_(S, b), prev |-> Prev_(S, b)]

Tagged(S, b) ==
    [hdr |-> Fields(S, b), foot |-> el_get_footer(S, b),
     footsize |-> Rd(S, el_get_footer(S, b))]

LiveView(S) ==
    LET view(av) ==
            LET both(us) ==
                    [ctl |-> S.ctl,
                     sentinels |-> [b \in Sentinels |-> Fields(S, b)],
                     avail |-> [i \in DOMAIN av |-> Tagged(S, av[i])],
                     used  |-> [i \in DOMAIN us |-> Tagged(S, us[i])]]
            IN  Let(ListSeq(S, "used"), both)
    IN  Let(ListSeq(S, "avail"), view)

(***************************************************************************)
(* The program: el_init(), then any calls of el_malloc() and el_free().    *)
(* The caller frees a pointer it holds, or repeats the free it just made.  *)
(*                                                                         *)
(* last records the most recent call: its argument and result, and what    *)
(* the heap looked like when it started:                                   *)
(*   fresh  the call (or the el_malloc() that an immediately following     *)
(*          el_free() undoes) started from the state el_init() leaves;     *)
(*   rt     an el_free() of the pointer the call just before it returned;  *)
(*   req    the size asked of that el_malloc();                            *)
(*   snap   the list counters before that el_malloc();                     *)
(*   below, above  the state of the freed block's physical neighbours      *)
(*          when the (first) el_free() started;                            *)
(*   pos    the place the block el_malloc() granted had in the available   *)
(*          list (1 = front, 0 = none granted);                            *)
(*   tight  the available list held a block of payload in                  *)
(*          [n, n + EL_BLOCK_OVERHEAD) when el_malloc(n) started.          *)
(***************************************************************************)
InitMachine == el_init(Blank).S

Counters(S) == [avail |-> S.ctl.avail, used |-> S.ctl.used]

IsAvail(S, b) == b # NULL /\ State(S, b) = EL_AVAILABLE

Install(S) ==
    /\ mem' = S.mem
    /\ el_ctl' = S.ctl
    /\ trap' = S.trap

Init ==
    \E r \in {el_init(Blank)} :
        /\ r.ret = 0
        /\ mem = r.S.mem
        /\ el_ctl = r.S.ctl
        /\ trap = r.S.trap
        /\ held = {}
        /\ calls = 0
        /\ last = [op |-> "init", arg |-> 0, ret |-> r.ret, req |-> 0,
                   fresh |-> FALSE, rt |-> FALSE, snap |-> Counters(Blank),
                   below |-> FALSE, above |-> FALSE, pos |-> 0, tight |-> FALSE]

Malloc(n) ==
    /\ ~trap
    /\ calls < MaxCalls
    /\ calls' = calls + 1
    /\ \E r \in {el_malloc(Machine, n)} :
           /\ Install(r.S)
           /\ held' = IF r.ret = NULL \/ r.S.trap THEN held ELSE held \cup {r.ret}
           /\ last' = [op |-> "malloc", arg |-> n, ret |-> r.ret, req |-> n,
                       fresh |-> (Machine = InitMachine),
                       rt |-> FALSE, snap |-> Counters(Machine),
                       below |-> FALSE, above |-> FALSE,
                       pos |-> PlaceOf(Machine, PTR_MINUS_BYTES(r.ret, SIZEOF_HEAD)),
                       tight |-> HasTight(Machine, n)]

Free(p) ==
    /\ ~trap
    /\ calls < MaxCalls
    /\ calls' = calls + 1
    /\ p \in held
    /\ \E S \in {el_free(Machine, p)} : Install(S)
    /\ held' = held \ {p}
    /\ LET h == PTR_MINUS_BYTES(p, SIZEOF_HEAD)
           rt == last.op = "malloc" /\ last.ret = p
       IN  last' = [op |-> "free", arg |-> p, ret |-> 0,
                    req |-> IF rt THEN last.req ELSE 0,
                    fresh |-> (rt /\ last.fresh),
                    rt |-> rt,
                    snap |-> IF rt THEN last.snap ELSE Counters(Blank),
                    below |-> \E b \in {el_block_below(Machine, h)} : IsAvail(Machine, b),
                    above |-> \E b \in {el_block_above(Machine, h)} : IsAvail(Machine, b),
                    pos |-> 0, tight |-> FALSE]

FreeAgain ==
    /\ ~trap
    /\ calls < MaxCalls
    /\ calls' = calls + 1
    /\ last.op \in {"free", "free again"}
    /\ \E S \in {el_free(Machine, last.arg)} : Install(S)
    /\ held' = held \ {last.arg}
    /\ last' = [last EXCEPT !.op = "free again", !.req = 0, !.fresh = FALSE,
                            !.rt = FALSE, !.snap = Counters(Blank)]

Next ==
    \/ \E n \in Requests : Malloc(n)
    \/ \E p \in held : Free(p)
    \/ FreeAgain

Spec == Init /\ [][Next]_vars

NoTrap == ~trap

(***************************************************************************)
(* C1.  Partition invariant: between operations, after any sequence of     *)
(* el_malloc(n) and el_free(ptr) calls, the byte spans (header + payload + *)
(* footer) of the members of the available list and of the used list lie   *)
(* inside [heap_start, heap_end), are pairwise disjoint and add up to      *)
(* heap_bytes: they cover the arena with no gap and no overlap.            *)
(***************************************************************************)
PartitionInvariant == Partition(Machine)

\* a heap that has been split and merged: an el_free() that coalesced, with
\* blocks left in both lists
PartitionWitness ==
    /\ last.op = "free"
    /\ last.below \/ last.above
    /\ el_ctl.avail.length >= 2
    /\ el_ctl.used.length >= 1

(***************************************************************************)
(* C2.  Conservation.  As claimed: available.bytes + used.bytes +          *)
(* overhead * (available.length + used.length) = heap_bytes.  The bytes    *)
(* counters already include the overhead of every member, so the claimed   *)
(* sum counts it twice; what the code keeps is                             *)
(* available.bytes + used.bytes = heap_bytes.                              *)
(***************************************************************************)
ConservationAsClaimed ==
    el_ctl.avail.bytes + el_ctl.used.bytes
        + EL_BLOCK_OVERHEAD * (el_ctl.avail.length + el_ctl.used.length)
    = el_ctl.heap_bytes

\* C2, as amended: available.bytes + used.bytes = heap_bytes in every state
\* reached from el_init() by el_malloc() and el_free() calls.
Conservation ==
    el_ctl.avail.bytes + el_ctl.used.bytes = el_ctl.heap_bytes

ConservationWitness ==
    /\ el_ctl.avail.length >= 2
    /\ el_ctl.used.length >= 2
    /\ last.op = "free"

(***************************************************************************)
(* C3.  Coalescing closure: after any el_free(ptr), no two physically      *)
(* adjacent blocks of the arena are both AVAILABLE, also when both the     *)
(* neighbour above and the neighbour below the freed block were AVAILABLE. *)
(***************************************************************************)
CoalescingClosure ==
    last.op \in {"free", "free again"} => NoAdjacentAvail(Machine)

\* an el_free() of a block lying between two AVAILABLE neighbours
CoalescingWitness ==
    /\ last.op = "free"
    /\ last.below
    /\ last.above

(***************************************************************************)
(* C4.  Round trip: when el_malloc(n) returns a non-null ptr and           *)
(* el_free(ptr) is the very next call, both lists have the length and the  *)
(* bytes they had before the el_malloc().                                  *)
(***************************************************************************)
RoundTrip ==
    (last.op = "free" /\ last.rt) => Counters(Machine) = last.snap

\* a round trip on a heap that already holds used and available blocks
RoundTripWitness ==
    /\ last.op = "free"
    /\ last.rt
    /\ el_ctl.used.length >= 1
    /\ el_ctl.avail.length >= 2

(***************************************************************************)
(* C5.  First fit: el_malloc(n) grants the first block, in available-list  *)
(* order from the front, whose payload is at least n + EL_BLOCK_OVERHEAD,  *)
(* as a reference scan of the list picks it, and returns NULL exactly when *)
(* the list holds no such block; a block of payload in                     *)
(* [n, n + EL_BLOCK_OVERHEAD) is passed over.                              *)
(***************************************************************************)
\* the reference scan: the least place of the list whose block is big enough
RefFirstFit(S, n) ==
    LET av == ListSeq(S, "avail")
        fits == {i \in DOMAIN av : Size(S, av[i]) >= n + EL_BLOCK_OVERHEAD}
    IN  IF fits = {} THEN NULL
        ELSE av[CHOOSE i \in fits : \A j \in fits : i <= j]

\* C5: every el_malloc(n) step grants what the reference scan picks in the
\* state the call started from.
FirstFit ==
    [][last'.op = "malloc" =>
          LET want == RefFirstFit(Machine, last'.arg)
          IN  /\ last'.ret = NULL <=> want = NULL
              /\ want # NULL =>
                    /\ want = PTR_MINUS_BYTES(last'.ret, SIZEOF_HEAD)
                    /\ want = Next_(Machine', USED_BEG)
                    /\ State(Machine', want) = EL_USED]_vars

\* a grant from behind the front of the list, past a block that holds n
\* bytes but not n + EL_BLOCK_OVERHEAD
FirstFitWitness ==
    /\ last.op = "malloc"
    /\ last.ret # NULL
    /\ last.pos >= 2
    /\ last.tight

(***************************************************************************)
(* C6.  Out of memory leaves no trace: when el_malloc(n) returns NULL,     *)
(* memory (every header, footer and link) and el_ctl (both lists' length   *)
(* and bytes) are what they were before the call.                          *)
(***************************************************************************)
OutOfMemoryNoTrace ==
    [][(last'.op = "malloc" /\ last'.ret = NULL) =>
          (mem' = mem /\ el_ctl' = el_ctl /\ trap' = trap /\ held' = held)]_vars

\* a refused request on a heap with used and available blocks, one of them
\* big enough for the payload alone
OutOfMemoryWitness ==
    /\ last.op = "malloc"
    /\ last.ret = NULL
    /\ last.tight
    /\ el_ctl.used.length >= 1

(***************************************************************************)
(* C7.  Double free: an el_free(ptr) that repeats the el_free(ptr) just    *)
(* made changes nothing (memory, lists, counters, boundary tags), also     *)
(* when the first call merged the block into its neighbour below; the      *)
(* partition invariant still holds.                                        *)
(***************************************************************************)
DoubleFreeNoOp ==
    [][last'.op = "free again" =>
          /\ mem' = mem /\ el_ctl' = el_ctl /\ trap' = trap
          /\ Partition(Machine')]_vars

\* the repeated free of a block that the first free merged into the
\* AVAILABLE block below it, its header no longer a member of any list
DoubleFreeWitness ==
    /\ last.op = "free again"
    /\ last.below
    /\ PTR_MINUS_BYTES(last.arg, SIZEOF_HEAD)
          \notin Range(ListSeq(Machine, "avail") \o ListSeq(Machine, "used"))

(***************************************************************************)
(* C8.  Returned address.  As claimed: the first el_malloc(100) after      *)
(* el_init() returns arena base + 40.  The header is 32 bytes (40 is       *)
(* header plus footer), so it returns arena base + 32; in general the      *)
(* address returned is the granted block's header address plus             *)
(* sizeof(el_blockhead_t), the granted block being the front of the used   *)
(* list.                                                                   *)
(***************************************************************************)
ReturnedAddressAsClaimed ==
    (last.op = "malloc" /\ last.fresh /\ last.arg = 100) =>
        last.ret = EL_HEAP_START_ADDRESS + 40

\* C8, as amended: the address returned is the header of the block at the
\* front of the used list plus 32; arena base + 32 for the first el_malloc(100).
ReturnedAddress ==
    (last.op = "malloc" /\ last.ret # NULL) =>
        /\ last.ret = PTR_PLUS_BYTES(Next_(Machine, USED_BEG), SIZEOF_HEAD)
        /\ (last.fresh /\ last.arg = 100) => last.ret = EL_HEAP_START_ADDRESS + 32

ReturnedAddressWitness ==
    /\ last.op = "malloc"
    /\ last.fresh
    /\ last.arg = 100
    /\ last.ret # NULL

(***************************************************************************)
(* C9.  Example scenario, arena 4096 and overhead 40: el_init() leaves one *)
(* AVAILABLE block of payload 4056 and no used block; el_malloc(100) then  *)
(* leaves one USED block of payload 100 at the arena base and one          *)
(* AVAILABLE block of payload 3916; el_free() of the address returned      *)
(* leaves one AVAILABLE block of payload 4056 at the arena base and no     *)
(* used block, and el_ctl, the sentinels and that block's header and       *)
(* footer are what el_init() left.                                         *)
(***************************************************************************)
ExampleScenario ==
    LET av == ListSeq(Machine, "avail")
        us == ListSeq(Machine, "used")
    IN  /\ EL_HEAP_INITIAL_SIZE = 4096 /\ EL_BLOCK_OVERHEAD = 40
        /\ last.op = "init" =>
              /\ av = <<EL_HEAP_START_ADDRESS>> /\ us = <<>>
              /\ Size(Machine, av[1]) = 4056
              /\ State(Machine, av[1]) = EL_AVAILABLE
        /\ (last.op = "malloc" /\ last.fresh /\ last.arg = 100) =>
              /\ us = <<EL_HEAP_START_ADDRESS>> /\ Len(av) = 1
              /\ Size(Machine, us[1]) = 100
              /\ State(Machine, us[1]) = EL_USED
              /\ Size(Machine, av[1]) = 3916
              /\ State(Machine, av[1]) = EL_AVAILABLE
        /\ (last.op = "free" /\ last.rt /\ last.fresh /\ last.req = 100) =>
              /\ av = <<EL_HEAP_START_ADDRESS>> /\ us = <<>>
              /\ Size(Machine, av[1]) = 4056
              /\ State(Machine, av[1]) = EL_AVAILABLE
              /\ LiveView(Machine) = LiveView(InitMachine)

ExampleScenarioWitness ==
    /\ last.op = "free"
    /\ last.rt
    /\ last.fresh
    /\ last.req = 100

(***************************************************************************)
(* C10.  Membership and state agree: between operations every block of    *)
(* the arena, in address order, is a member of exactly one of the two      *)
(* lists; every member of the available list is AVAILABLE and every member *)
(* of the used list is USED; the sentinels are members of no list and keep *)
(* their marker states.                                                    *)
(***************************************************************************)
MembershipAgrees ==
    LET av == ListSeq(Machine, "avail")
        us == ListSeq(Machine, "used")
        ps == PhysSeq(Machine)
    IN  /\ \A i \in DOMAIN ps : Count(av, ps[i]) + Count(us, ps[i]) = 1
        /\ Range(av) \cup Range(us) \subseteq Range(ps)
        /\ \A b \in Range(av) : State(Machine, b) = EL_AVAILABLE
        /\ \A b \in Range(us) : State(Machine, b) = EL_USED
        /\ (Range(av) \cup Range(us)) \cap Sentinels = {}
        /\ State(Machine, AVAIL_BEG) = EL_BEGIN_BLOCK
        /\ State(Machine, USED_BEG) = EL_BEGIN_BLOCK
        /\ State(Machine, AVAIL_END) = EL_END_BLOCK
        /\ State(Machine, USED_END) = EL_END_BLOCK

\* blocks in both lists after blocks have moved both ways
MembershipWitness ==
    /\ last.op = "free"
    /\ last.above
    /\ el_ctl.used.length >= 2
    /\ el_ctl.avail.length >= 2

(***************************************************************************)
(* Requests of every size.  The caller of Spec asks for sizes n with       *)
(* n + EL_BLOCK_OVERHEAD below 2^w.  The caller of SpecWide also asks for  *)
(* more than the arena holds, up to the largest size_t, where              *)
(* n + EL_BLOCK_OVERHEAD wraps.  A call that wrapped and found a block has *)
(* stored headers and footers over one another; the caller stops there.    *)
(***************************************************************************)
\* more than the arena holds, and the largest size_t, where n + overhead wraps
WideRequests == {5000, SizeMod - 1}

Wrapped ==
    /\ last.op = "malloc"
    /\ last.arg + EL_BLOCK_OVERHEAD >= SizeMod
    /\ last.ret # NULL

NextWide ==
    \/ \E n \in Requests \cup WideRequests : ~Wrapped /\ Malloc(n)
    \/ \E p \in held : ~Wrapped /\ Free(p)
    \/ ~Wrapped /\ FreeAgain

SpecWide == Init /\ [][NextWide]_vars

(***************************************************************************)
(* C11.  Granted size for every request size: for every n of size_t, with  *)
(* n + EL_BLOCK_OVERHEAD computed modulo 2^w, el_malloc(n) completes; a     *)
(* non-null result is the payload of a USED block that lies inside          *)
(* [heap_start, heap_end) and whose payload is at least n bytes; when n is  *)
(* larger than the arena the result is NULL and memory and el_ctl are what  *)
(* they were.                                                               *)
(***************************************************************************)
GrantedSizeEveryRequest ==
    [][last'.op = "malloc" =>
          /\ ~trap'
          /\ last'.ret # NULL =>
                LET b == PTR_MINUS_BYTES(last'.ret, SIZEOF_HEAD)
                IN  /\ State(Machine', b) = EL_USED
                    /\ el_ctl'.heap_start <= b
                    /\ b + EL_BLOCK_OVERHEAD + Size(Machine', b) <= el_ctl'.heap_end
                    /\ Size(Machine', b) >= last'.arg
          /\ last'.arg > el_ctl.heap_bytes =>
                /\ last'.ret = NULL
                /\ mem' = mem
                /\ el_ctl' = el_ctl]_vars

(***************************************************************************)
(* Builds with other arena sizes.  EL_HEAP_INITIAL_SIZE is set when the    *)
(* allocator is compiled; SpecSized starts from el_init() of a build with  *)
(* any of ArenaSizes (mmap() hands out whole pages, so the stores el_init  *)
(* makes stay inside mapped memory).  The caller goes on to el_malloc()    *)
(* and el_free() only when el_init() returned 0; el_init() that returned   *)
(* -1 has initialised no list and stored nothing.                          *)
(***************************************************************************)
\* one byte short of a block's overhead, exactly the overhead, one byte
\* more, and the size the allocator ships with
ArenaSizes == {EL_BLOCK_OVERHEAD - 1, EL_BLOCK_OVERHEAD, EL_BLOCK_OVERHEAD + 1,
               EL_HEAP_INITIAL_SIZE}

InitSized ==
    \E bytes \in ArenaSizes :
        \E r \in {el_init_sized(Blank, bytes)} :
            /\ mem = r.S.mem
            /\ el_ctl = r.S.ctl
            /\ trap = r.S.trap
            /\ held = {}
            /\ calls = 0
            /\ last = [op |-> "init", arg |-> bytes, ret |-> r.ret, req |-> 0,
                       fresh |-> FALSE, rt |-> FALSE, snap |-> Counters(Blank),
                       below |-> FALSE, above |-> FALSE, pos |-> 0, tight |-> FALSE]

Usable == mem # <<>>

NextSized ==
    \/ \E n \in Requests : Usable /\ Malloc(n)
    \/ \E p \in held : Usable /\ Free(p)
    \/ Usable /\ FreeAgain

SpecSized == InitSized /\ [][NextSized]_vars

(***************************************************************************)
(* C12.  Initialisation outcome: el_init() returns -1 exactly when the     *)
(* arena byte count is smaller than EL_BLOCK_OVERHEAD, and then no block   *)
(* is created and nothing is in any list; otherwise it returns 0 and       *)
(* leaves the used list empty and the available list holding exactly one   *)
(* AVAILABLE block at heap_start whose header size and footer size are     *)
(* heap_bytes - EL_BLOCK_OVERHEAD (0 when the arena is exactly the         *)
(* overhead).                                                              *)
(***************************************************************************)
InitOutcome ==
    last.op = "init" =>
        /\ last.ret \in {0, -1}
        /\ last.ret = -1 <=> last.arg < EL_BLOCK_OVERHEAD
        /\ last.ret = -1 =>
              /\ mem = <<>>
              /\ el_ctl.avail = [length |-> 0, bytes |-> 0]
              /\ el_ctl.used = [length |-> 0, bytes |-> 0]
        /\ last.ret = 0 =>
              /\ el_ctl.heap_bytes = last.arg
              /\ el_ctl.used.length = 0
              /\ ListSeq(Machine, "used") = <<>>
              /\ el_ctl.avail.length = 1
              /\ ListSeq(Machine, "avail") = <<el_ctl.heap_start>>
              /\ State(Machine, el_ctl.heap_start) = EL_AVAILABLE
              /\ Size(Machine, el_ctl.heap_start) = last.arg - EL_BLOCK_OVERHEAD
              /\ el_get_footer(Machine, el_ctl.heap_start)
                    = el_ctl.heap_start + SIZEOF_HEAD + (last.arg - EL_BLOCK_OVERHEAD)
              /\ Rd(Machine, el_get_footer(Machine, el_ctl.heap_start))
                    = last.arg - EL_BLOCK_OVERHEAD

\* el_init() on an arena one byte short of a block's overhead
InitOutcomeWitness ==
    /\ last.op = "init"
    /\ last.arg = EL_BLOCK_OVERHEAD - 1
    /\ last.ret = -1

(***************************************************************************)
(* C13.  List accounting: between operations, for each of the two lists,   *)
(* length is the number of blocks linked between the begin sentinel and    *)
(* the end sentinel, bytes is the sum over those blocks of payload size    *)
(* plus EL_BLOCK_OVERHEAD, following next from the begin sentinel reaches  *)
(* the end sentinel after exactly length blocks, and                       *)
(* b.next.prev = b = b.prev.next for every member b; also after splits     *)
(* and merges.                                                             *)
(***************************************************************************)
Accounted(S, list) ==
    LET counted(seq) ==
            /\ S.ctl[list].length = Len(seq)
            /\ S.ctl[list].bytes
                  = SumSeq([i \in DOMAIN seq |-> Size(S, seq[i]) + EL_BLOCK_OVERHEAD])
            /\ IF seq = <<>> THEN Next_(S, ListBeg(list)) = ListEnd(list)
               ELSE /\ Next_(S, seq[Len(seq)]) = ListEnd(list)
                    /\ Prev_(S, seq[1]) = ListBeg(list)
            /\ Prev_(S, ListEnd(list)) = (IF seq = <<>> THEN ListBeg(list) ELSE seq[Len(seq)])
            /\ \A i \in DOMAIN seq :
                  /\ Prev_(S, Next_(S, seq[i])) = seq[i]
                  /\ Next_(S, Prev_(S, seq[i])) = seq[i]
            /\ \A i, j \in DOMAIN seq : i # j => seq[i] # seq[j]
    IN  Let(ListSeq(S, list), counted)

ListAccounting == Accounted(Machine, "avail") /\ Accounted(Machine, "used")

\* an el_free() that merged the block into the one below it, with other
\* blocks left in both lists
ListAccountingWitness ==
    /\ last.op = "free"
    /\ last.below
    /\ ~last.above
    /\ el_ctl.used.length >= 2
    /\ el_ctl.avail.length >= 2

(***************************************************************************)
(* C14.  Boundary-tag consistency: between operations every member of      *)
(* either list has footer.size = header.size, its footer lying at header   *)
(* address + SIZEOF_HEAD + payload size, so that                           *)
(* el_block_below(el_block_above(b)) = b for every member b with a         *)
(* physical neighbour above, el_block_above of the topmost block is NULL   *)
(* and el_block_below of the block at heap_start is NULL.                  *)
(***************************************************************************)
BoundaryTags ==
    LET tagged(bs) ==
            /\ el_ctl.heap_start \in bs
            /\ \A b \in bs :
                  /\ el_get_footer(Machine, b) = b + SIZEOF_HEAD + Size(Machine, b)
                  /\ Rd(Machine, el_get_footer(Machine, b)) = Size(Machine, b)
                  /\ el_get_header(Machine, el_get_footer(Machine, b)) = b
                  /\ el_block_above(Machine, b) # NULL =>
                        /\ el_block_above(Machine, b) \in bs
                        /\ el_block_below(Machine, el_block_above(Machine, b)) = b
                  /\ (\A c \in bs : c <= b) => el_block_above(Machine, b) = NULL
                  /\ (\E c \in bs : c > b) => el_block_above(Machine, b) # NULL
                  /\ b = el_ctl.heap_start => el_block_below(Machine, b) = NULL
                  /\ b # el_ctl.heap_start =>
                        /\ el_block_below(Machine, b) \in bs
                        /\ el_block_above(Machine, el_block_below(Machine, b)) = b
    IN  Let(Range(ListSeq(Machine, "avail") \o ListSeq(Machine, "used")), tagged)

\* a block granted out of a split, on a heap that other splits and frees shaped
BoundaryTagsWitness ==
    /\ last.op = "malloc"
    /\ last.ret # NULL
    /\ ~last.fresh
    /\ el_ctl.used.length >= 3
    /\ el_ctl.avail.length >= 2

(***************************************************************************)
(* C15.  Merge with the block above: when the block given and its physical *)
(* neighbour above are both AVAILABLE, el_merge_block_with_above leaves    *)
(* one block at the lower block's header address whose header size and     *)
(* footer size (the footer being the upper block's old footer) are         *)
(* size_lower + size_upper + EL_BLOCK_OVERHEAD, takes exactly 1 off the    *)
(* available list's length, leaves its bytes as they were, and puts the    *)
(* merged block at the front of the available list; when the neighbour     *)
(* above is absent or either block is not AVAILABLE the call changes       *)
(* nothing.  Stated of the calls every el_free() step makes of it, and of  *)
(* a call on any block of the arena between operations.                    *)
(***************************************************************************)
\* what the claim says of a call el_merge_block_with_above(lower) that
\* started in S and left R
MergesAsClaimed(S, lower, R) ==
    \A above \in {el_block_above(S, lower)} :
        IF /\ State(S, lower) = EL_AVAILABLE
           /\ above # NULL
           /\ State(S, above) = EL_AVAILABLE
        THEN /\ ~R.trap
             /\ State(R, lower) = EL_AVAILABLE
             /\ Size(R, lower) = Size(S, lower) + Size(S, above) + EL_BLOCK_OVERHEAD
             /\ el_get_footer(R, lower) = el_get_footer(S, above)
             /\ Rd(R, el_get_footer(S, above))
                   = Size(S, lower) + Size(S, above) + EL_BLOCK_OVERHEAD
             /\ R.ctl.avail.length = S.ctl.avail.length - 1
             /\ R.ctl.avail.bytes = S.ctl.avail.bytes
             /\ R.ctl.used = S.ctl.used
             /\ ListSeq(R, "avail")
                   = <<lower>> \o SelectSeq(ListSeq(S, "avail"),
                                            LAMBDA b : b # lower /\ b # above)
             /\ ListSeq(R, "used") = ListSeq(S, "used")
        ELSE R = S

MergeWithAbove ==
    [][\A M \in {Machine} :
          /\ \A b \in Range(PhysSeq(M)) :
                \A R \in {el_merge_block_with_above(M, b)} : MergesAsClaimed(M, b, R)
          /\ last'.op = "free" =>
                \A header_to_free \in {PTR_MINUS_BYTES(last'.arg, SIZEOF_HEAD)} :
                \A before \in {el_block_below(M, header_to_free)} :
                \A S3 \in {el_free_release(M, last'.arg)} :
                \A S4 \in {el_merge_block_with_above(S3, header_to_free)} :
                \A S5 \in {IF before # NULL THEN el_merge_block_with_above(S4, before)
                           ELSE S4} :
                    /\ MergesAsClaimed(S3, header_to_free, S4)
                    /\ before # NULL => MergesAsClaimed(S4, before, S5)
                    /\ Machine' = S5]_vars

\* an el_free() has merged the freed block with its neighbour above, and
\* the merged block was not merged again into the block below
MergeWithAboveWitness ==
    /\ last.op = "free"
    /\ last.above
    /\ ~last.below
    /\ Next_(Machine, AVAIL_BEG) = PTR_MINUS_BYTES(last.arg, SIZEOF_HEAD)
    /\ el_ctl.avail.length >= 2

(***************************************************************************)
(* C16.  Recency order of the lists: after every el_malloc(n) that returns *)
(* a block, that block is the first member of the used list and the        *)
(* remainder of the split is the first member of the available list, the   *)
(* other members of both lists keeping their order; after every el_free()  *)
(* that is not a double free, the AVAILABLE block whose span holds ptr     *)
(* (the freed block, or the block below it when that one was AVAILABLE)    *)
(* is the first member of the available list.                              *)
(***************************************************************************)
RecencyOrder ==
    [][/\ (last'.op = "malloc" /\ last'.ret # NULL) =>
              LET first == PTR_MINUS_BYTES(last'.ret, SIZEOF_HEAD)
                  remainder == el_block_above(Machine', first)
              IN  /\ ListSeq(Machine', "used") = <<first>> \o ListSeq(Machine, "used")
                  /\ remainder # NULL
                  /\ ListSeq(Machine', "avail")
                        = <<remainder>> \o SelectSeq(ListSeq(Machine, "avail"),
                                                     LAMBDA b : b # first)
       /\ last'.op = "free" =>
              LET header_to_free == PTR_MINUS_BYTES(last'.arg, SIZEOF_HEAD)
                  front == Next_(Machine', AVAIL_BEG)
              IN  /\ front # AVAIL_END
                  /\ State(Machine', front) = EL_AVAILABLE
                  /\ front <= last'.arg
                  /\ last'.arg < front + EL_BLOCK_OVERHEAD + Size(Machine', front)
                  /\ front = IF last'.below THEN el_block_below(Machine, header_to_free)
                             ELSE header_to_free
                  /\ ListSeq(Machine', "used")
                        = SelectSeq(ListSeq(Machine, "used"),
                                    LAMBDA b : b # header_to_free)]_vars

\* an el_free() between two AVAILABLE neighbours: the block below, grown
\* over both, leads the available list
RecencyOrderWitness ==
    /\ last.op = "free"
    /\ last.below
    /\ last.above
    /\ Next_(Machine, AVAIL_BEG) < PTR_MINUS_BYTES(last.arg, SIZEOF_HEAD)
    /\ el_ctl.used.length >= 1

(***************************************************************************)
(* C17.  Split never fails inside el_malloc: the block el_find_first_avail *)
(* returns for a request n has payload >= n + EL_BLOCK_OVERHEAD, so every  *)
(* el_malloc(n) that returns a block leaves a USED block of payload        *)
(* exactly n and adds exactly one new AVAILABLE block, the remainder, of   *)
(* payload (original size - n - EL_BLOCK_OVERHEAD), possibly 0; the whole  *)
(* block is never handed out unsplit and NULL is never put on the          *)
(* available list.                                                         *)
(***************************************************************************)
SplitNeverFails ==
    [][last'.op = "malloc" =>
          /\ ~trap'
          /\ NULL \notin Range(ListSeq(Machine', "avail"))
          /\ last'.ret # NULL =>
                LET first == PTR_MINUS_BYTES(last'.ret, SIZEOF_HEAD)
                    original == Size(Machine, first)
                    second == first + EL_BLOCK_OVERHEAD + last'.arg
                    before == Range(ListSeq(Machine, "avail"))
                    after == Range(ListSeq(Machine', "avail"))
                IN  /\ first \in before
                    /\ original >= last'.arg + EL_BLOCK_OVERHEAD
                    /\ State(Machine', first) = EL_USED
                    /\ Size(Machine', first) = last'.arg
                    /\ second \notin before
                    /\ after = (before \ {first}) \cup {second}
                    /\ State(Machine', second) = EL_AVAILABLE
                    /\ Size(Machine', second) = original - last'.arg - EL_BLOCK_OVERHEAD
                    /\ Rd(Machine', el_get_footer(Machine', second))
                          = original - last'.arg - EL_BLOCK_OVERHEAD
                    /\ el_ctl'.avail.length = el_ctl.avail.length
                    /\ el_ctl'.used.length = el_ctl.used.length + 1]_vars

\* a split that left a remainder of payload 0
SplitNeverFailsWitness ==
    /\ last.op = "malloc"
    /\ last.ret # NULL
    /\ el_ctl.avail.length >= 1
    /\ Size(Machine, Next_(Machine, AVAIL_BEG)) = 0

(***************************************************************************)
(* C18.  Full coalescing when nothing is in use: in every state reached    *)
(* from el_init() by el_malloc() and el_free() calls in which the used     *)
(* list is empty (every pointer granted has been freed, in any order), the *)
(* available list holds exactly one block, at heap_start, of payload       *)
(* heap_bytes - EL_BLOCK_OVERHEAD: the block el_init() created.            *)
(***************************************************************************)
FullCoalescing ==
    el_ctl.used.length = 0 =>
        /\ ListSeq(Machine, "used") = <<>>
        /\ el_ctl.avail.length = 1
        /\ ListSeq(Machine, "avail") = <<el_ctl.heap_start>>
        /\ State(Machine, el_ctl.heap_start) = EL_AVAILABLE
        /\ Size(Machine, el_ctl.heap_start) = el_ctl.heap_bytes - EL_BLOCK_OVERHEAD
        /\ Rd(Machine, el_get_footer(Machine, el_ctl.heap_start))
              = el_ctl.heap_bytes - EL_BLOCK_OVERHEAD
        /\ Tagged(Machine, el_ctl.heap_start) = Tagged(InitMachine, el_ctl.heap_start)

\* the last pointer held is freed out of allocation order: its block lay
\* between two blocks freed before it
FullCoalescingWitness ==
    /\ last.op = "free"
    /\ el_ctl.used.length = 0
    /\ last.below
    /\ last.above
    /\ calls >= 6

=============================================================================
